---- MODULE Spec2Model ----
(***************************************************************************)
(* Model of the wallet controller (controller/src/controller.rs): the      *)
(* slate compatibility check handed to the Foreign API, the Owner and      *)
(* Foreign listeners with their routers, and the three JSON-RPC handlers   *)
(* that serve POST and OPTIONS requests against one shared wallet.         *)
(***************************************************************************)
EXTENDS Naturals, Integers, Sequences, FiniteSets, TLC

VARIABLES
    args,       \* the arguments the process started its listener with
    server,     \* the listener: stopped, running with its router, or failed
    mutex,      \* per wallet handle: the request holding the lock, 0 = free
    wallet,     \* per wallet handle: number of records the wallet has stored
    reqs,       \* per connection: the request in flight and its response
    cli,        \* the single-use call of a command: the facade it handed to its closure
    gate        \* one application of check_middleware: inputs and result

vars == <<args, server, mutex, wallet, reqs, cli, gate>>

(***************************************************************************)
(* Bounds of the model.                                                    *)
(***************************************************************************)
\* connections that can be in flight at once
MaxReqs == 2
\* largest block header version a node or a slate reports
MaxHeaderVersion == 3
\* largest slate version a slate reports
MaxSlateVersion == 4

(***************************************************************************)
(* Option<T>: None is the empty sequence, Some(x) a one-element sequence.  *)
(***************************************************************************)
None == <<>>
Some(x) == <<x>>
is_some(o) == o # None
unwrap(o) == o[1]

(***************************************************************************)
(* Versions the wallet supports.  Both are imported from libwallet; the    *)
(* check below only compares against them.                                 *)
(***************************************************************************)
CURRENT_SLATE_VERSION == 3
GRIN_BLOCK_HEADER_VERSION == 2

\* ForeignCheckMiddlewareFn: the operation the Foreign API is about to run
ForeignCheckMiddlewareFn ==
    {"CheckVersion", "BuildCoinbase", "VerifySlateMessages", "ReceiveTx", "FinalizeInvoiceTx"}

\* NodeVersionInfo, as far as the check reads it
NodeVersionInfo == [block_header_version : 0..MaxHeaderVersion]

\* Slate, as far as the check reads it
VersionCompatInfo ==
    [version : 0..MaxSlateVersion, block_header_version : 0..MaxHeaderVersion]
Slate == [version_info : VersionCompatInfo]

OptNodeVersionInfo == {None} \cup {Some(n) : n \in NodeVersionInfo}
OptSlate == {None} \cup {Some(s) : s \in Slate}

Ok == [ok |-> TRUE, kind |-> "Ok", msg |-> <<>>]
Err(kind, msg) == [ok |-> FALSE, kind |-> kind, msg |-> msg]

CompatibilityMsg ==
    <<"Incoming Slate is not compatible with this wallet. ",
      "Please upgrade the node or use a different one.">>

\* check_middleware with the slate version test inverted to <=
check_middleware_le(name, node_version_info, slate) ==
    IF name = "BuildCoinbase"
    THEN Ok
    ELSE LET bhv == IF is_some(node_version_info)
                    THEN unwrap(node_version_info).block_header_version
                    ELSE 1
         IN  IF is_some(slate)
             THEN LET s == unwrap(slate)
                  IN  IF \/ s.version_info.version <= CURRENT_SLATE_VERSION
                         \/ (bhv = 1 /\ s.version_info.block_header_version # 1)
                         \/ (bhv > 1 /\ s.version_info.block_header_version
                                          < GRIN_BLOCK_HEADER_VERSION)
                      THEN Err("Compatibility", CompatibilityMsg)
                      ELSE Ok
             ELSE Ok

\* check_middleware without the early return for coinbases
check_middleware_no_exempt(name, node_version_info, slate) ==
    LET bhv == IF is_some(node_version_info)
               THEN unwrap(node_version_info).block_header_version
               ELSE 1
    IN  IF is_some(slate)
        THEN LET s == unwrap(slate)
             IN  IF \/ s.version_info.version < CURRENT_SLATE_VERSION
                    \/ (bhv = 1 /\ s.version_info.block_header_version # 1)
                    \/ (bhv > 1 /\ s.version_info.block_header_version
                                     < GRIN_BLOCK_HEADER_VERSION)
                 THEN Err("Compatibility", CompatibilityMsg)
                 ELSE Ok
        ELSE Ok

\* check_middleware with the slate version test guarded by the node's epoch
check_middleware_version_if_epoch(name, node_version_info, slate) ==
    IF name = "BuildCoinbase"
    THEN Ok
    ELSE LET bhv == IF is_some(node_version_info)
                    THEN unwrap(node_version_info).block_header_version
                    ELSE 1
         IN  IF is_some(slate)
             THEN LET s == unwrap(slate)
                  IN  IF \/ (bhv > 1 /\ s.version_info.version < CURRENT_SLATE_VERSION)
                         \/ (bhv = 1 /\ s.version_info.block_header_version # 1)
                         \/ (bhv > 1 /\ s.version_info.block_header_version
                                          < GRIN_BLOCK_HEADER_VERSION)
                      THEN Err("Compatibility", CompatibilityMsg)
                      ELSE Ok
             ELSE Ok

\* check_middleware with the epoch-1 test relaxed from "exactly 1" to "at least 1"
check_middleware_epoch1_floor(name, node_version_info, slate) ==
    IF name = "BuildCoinbase"
    THEN Ok
    ELSE LET bhv == IF is_some(node_version_info)
                    THEN unwrap(node_version_info).block_header_version
                    ELSE 1
         IN  IF is_some(slate)
             THEN LET s == unwrap(slate)
                  IN  IF \/ s.version_info.version < CURRENT_SLATE_VERSION
                         \/ (bhv = 1 /\ s.version_info.block_header_version < 1)
                         \/ (bhv > 1 /\ s.version_info.block_header_version
                                          < GRIN_BLOCK_HEADER_VERSION)
                      THEN Err("Compatibility", CompatibilityMsg)
                      ELSE Ok
             ELSE Ok

\* check_middleware with the later epochs compared against the node's own version
check_middleware_epoch_exact(name, node_version_info, slate) ==
    IF name = "BuildCoinbase"
    THEN Ok
    ELSE LET bhv == IF is_some(node_version_info)
                    THEN unwrap(node_version_info).block_header_version
                    ELSE 1
         IN  IF is_some(slate)
             THEN LET s == unwrap(slate)
                  IN  IF \/ s.version_info.version < CURRENT_SLATE_VERSION
                         \/ (bhv = 1 /\ s.version_info.block_header_version # 1)
                         \/ (bhv > 1 /\ s.version_info.block_header_version < bhv)
                      THEN Err("Compatibility", CompatibilityMsg)
                      ELSE Ok
             ELSE Ok

\* fn check_middleware(name, node_version_info, slate) -> Result<(), Error>
check_middleware(name, node_version_info, slate) ==
    IF name = "BuildCoinbase"
    THEN Ok
    ELSE LET bhv == IF is_some(node_version_info)
                    THEN unwrap(node_version_info).block_header_version
                    ELSE 1
         IN  IF is_some(slate)
             THEN LET s == unwrap(slate)
                  IN  IF \/ s.version_info.version < CURRENT_SLATE_VERSION
                         \/ (bhv = 1 /\ s.version_info.block_header_version # 1)
                         \/ (bhv > 1 /\ s.version_info.block_header_version
                                          < GRIN_BLOCK_HEADER_VERSION)
                      THEN Err("Compatibility", CompatibilityMsg)
                      ELSE Ok
             ELSE Ok

(***************************************************************************)
(* One application of the check to inputs drawn from the bounded sets.     *)
(***************************************************************************)
GateInputs ==
    [name : ForeignCheckMiddlewareFn,
     node_version_info : OptNodeVersionInfo,
     slate : OptSlate,
     result : {None}]

GateIdle ==
    [name |-> "CheckVersion", node_version_info |-> None, slate |-> None, result |-> None]

\* the caller hands the check its three arguments and keeps what it returns
ApplyCheck ==
    /\ gate.result = None
    /\ gate' = [gate EXCEPT
                  !.result = Some(check_middleware(gate.name, gate.node_version_info,
                                                   gate.slate))]
    /\ UNCHANGED <<args, server, mutex, wallet, reqs, cli>>

(***************************************************************************)
(* Response envelope.  A response is its status, the four headers this     *)
(* layer ever sets (each an Option) and its body, a sequence of text       *)
(* pieces.                                                                  *)
(***************************************************************************)
Response(status, origin, headers, ctype, challenge, body) ==
    [status |-> status,
     access_control_allow_origin |-> origin,
     access_control_allow_headers |-> headers,
     content_type |-> ctype,
     www_authenticate |-> challenge,
     body |-> body]

NoResponse == None

\* fn response(status, text) -> Response<Body>
response(status, text) ==
    Response(status, Some("*"), Some("Content-Type, Authorization"),
             IF status = 200 THEN Some("application/json") ELSE None,
             None, text)

\* Display of an Error: the kind's label followed by its message
Display(e) == <<e.kind, ": ">> \o e.msg

\* create_error_response() that sets the status and the body only
create_error_response_bare(e) ==
    Response(500, None, None, None, None, Display(e))

\* fn create_error_response(e: Error) -> Response<Body>
create_error_response(e) ==
    Response(500, Some("*"), Some("Content-Type, Authorization"), None, None, Display(e))

\* create_ok_response() that leaves out the allow-headers header
create_ok_response_no_allow_headers(json) ==
    Response(200, Some("*"), None, Some("application/json"), None, json)

\* fn create_ok_response(json: &str) -> Response<Body>
create_ok_response(json) ==
    Response(200, Some("*"), Some("Content-Type, Authorization"),
             Some("application/json"), None, json)

(***************************************************************************)
(* JSON values.  A value is an array or an object with its members as     *)
(* text pieces; serialising writes the brackets around the members.       *)
(***************************************************************************)
JsonArray(items) == [type |-> "array", items |-> items]
JsonObject(items) == [type |-> "object", items |-> items]

\* serde_json::to_string_pretty
to_string_pretty(v) ==
    [ok |-> TRUE,
     json |-> IF v.type = "array"
              THEN <<"[">> \o v.items \o <<"]">>
              ELSE <<"{">> \o v.items \o <<"}">>]

\* fn json_response_pretty<T: Serialize>(s: &T) -> Response<Body>
json_response_pretty(s) ==
    LET r == to_string_pretty(s)
    IN  IF r.ok THEN response(200, r.json) ELSE response(500, <<>>)

(***************************************************************************)
(* Request bodies.  A body either fails while it is being received or     *)
(* arrives as text; the text either is a JSON document or is not.         *)
(***************************************************************************)
\* the slate a counterparty sends in a request: of the current slate version and of
\* the first header epoch, so that what the node reports decides the check
RequestSlates ==
    {[version_info |-> [version |-> CURRENT_SLATE_VERSION, block_header_version |-> 1]]}

\* a JSON-RPC request: a method call (has an id) or a notification (has none)
RpcRequest(rpc, method, slate) == [rpc |-> rpc, method |-> method, slate |-> slate]

RequestValues ==
    {RpcRequest("call", "receive_tx", Some(s)) : s \in RequestSlates}
    \cup {RpcRequest(k, m, None) : k \in {"call", "notification"},
                                   m \in {"build_coinbase", "init_send_tx"}}

NoValue == RpcRequest("none", "none", None)

Body(read_ok, json_ok, value) == [read_ok |-> read_ok, json_ok |-> json_ok, value |-> value]

Bodies ==
    {Body(FALSE, FALSE, NoValue), Body(TRUE, FALSE, NoValue)}
    \cup {Body(TRUE, TRUE, v) : v \in RequestValues}

NoBody == Body(FALSE, FALSE, RpcRequest("unread", "none", None))

\* parse_body() that hands a default value to the handler when the text is not JSON
parse_body_lenient(body) ==
    IF ~body.read_ok
    THEN [ok |-> FALSE, err |-> Err("Generic error", <<"Failed to read request">>),
          obj |-> NoValue]
    ELSE [ok |-> TRUE, err |-> Ok,
          obj |-> IF body.json_ok THEN body.value
                  ELSE RpcRequest("notification", "init_send_tx", None)]

\* fn parse_body<T>(req: Request<Body>) -> Future<Item = T, Error = Error>
parse_body(body) ==
    IF ~body.read_ok
    THEN [ok |-> FALSE, err |-> Err("Generic error", <<"Failed to read request">>),
          obj |-> NoValue]
    ELSE IF body.json_ok
         THEN [ok |-> TRUE, err |-> Ok, obj |-> body.value]
         ELSE [ok |-> FALSE,
               err |-> Err("Generic error",
                           <<"Invalid request body: ", "expected value at line 1 column 1">>),
               obj |-> NoValue]

(***************************************************************************)
(* The shared wallet.  A handle (Arc<Mutex<..>>) names the wallet instance *)
(* and its lock; cloning a handle yields the same handle.                  *)
(***************************************************************************)
\* the wallet instance the process opened, and a detached copy of it
Handles == {"wallet", "copy"}
TheWallet == "wallet"

\* Arc::clone
clone(h) == h

KeychainMasks == {None, Some("mask")}
ApiSecrets == {None, Some("secret")}
IncludeForeign == {None, Some(TRUE), Some(FALSE)}

\* the arguments owner_listener is started with; a keychain mask is only handed over
\* when the Foreign API is to be served on the same port
OwnerArgs ==
    {a \in [keychain_mask : KeychainMasks, api_secret : ApiSecrets,
            owner_api_include_foreign : IncludeForeign] :
        a.keychain_mask # None => a.owner_api_include_foreign = Some(TRUE)}

(***************************************************************************)
(* API facades.                                                             *)
(***************************************************************************)
Facade(api, wallet_inst, keychain_mask, middleware) ==
    [api |-> api, wallet_inst |-> wallet_inst, keychain_mask |-> keychain_mask,
     middleware |-> middleware]

NoApi == Facade("none", "none", None, None)

\* Owner::new(wallet)
Owner_new(wallet_inst) == Facade("Owner", wallet_inst, None, None)

\* Foreign::new(wallet, keychain_mask, middleware)
Foreign_new(wallet_inst, keychain_mask, middleware) ==
    Facade("Foreign", wallet_inst, keychain_mask, middleware)

(***************************************************************************)
(* The three handlers.                                                      *)
(***************************************************************************)
Handler(type, wallet_inst, keychain_mask) ==
    [type |-> type, wallet |-> wallet_inst, keychain_mask |-> keychain_mask]

\* OwnerAPIHandlerV2::new
OwnerAPIHandlerV2_new(wallet_inst) == Handler("OwnerAPIHandlerV2", wallet_inst, None)

\* OwnerAPIHandlerV3::new
OwnerAPIHandlerV3_new(wallet_inst) == Handler("OwnerAPIHandlerV3", wallet_inst, None)

\* ForeignAPIHandlerV2::new
ForeignAPIHandlerV2_new(wallet_inst, keychain_mask) ==
    Handler("ForeignAPIHandlerV2", wallet_inst, keychain_mask)

(***************************************************************************)
(* Single-use calls: the facade is built and handed to the caller's        *)
(* closure, whose result is the result of the call.                        *)
(***************************************************************************)
\* what the closure of the caller returns
ClosureResults == {Ok, Err("Generic error", <<"closure failed">>)}

SingleUse(api, closure_mask, result) ==
    [api |-> api, keychain_mask |-> closure_mask, result |-> result]

NoCall == SingleUse(NoApi, None, Ok)

\* pub fn owner_single_use(wallet, keychain_mask, f) -> Result<(), Error>
owner_single_use(wallet_inst, keychain_mask, f_result) ==
    SingleUse(Owner_new(wallet_inst), keychain_mask, f_result)

\* pub fn foreign_single_use(wallet, keychain_mask, f) -> Result<(), Error>
foreign_single_use(wallet_inst, keychain_mask, f_result) ==
    SingleUse(Foreign_new(wallet_inst, keychain_mask, Some("check_middleware")), None,
              f_result)

\* the facade a Foreign handler would build without the keychain mask
new_api_no_mask(h) ==
    IF h.type = "ForeignAPIHandlerV2"
    THEN Foreign_new(clone(h.wallet), None, Some("check_middleware"))
    ELSE Owner_new(clone(h.wallet))

\* the facade a Foreign handler would build without the compatibility check
new_api_unchecked(h) ==
    IF h.type = "ForeignAPIHandlerV2"
    THEN Foreign_new(clone(h.wallet), h.keychain_mask, None)
    ELSE Owner_new(clone(h.wallet))

\* handle_post_request, first statement: the facade built for this request
new_api(h) ==
    IF h.type = "ForeignAPIHandlerV2"
    THEN Foreign_new(clone(h.wallet), h.keychain_mask, Some("check_middleware"))
    ELSE Owner_new(clone(h.wallet))

\* call_api: the JSON-RPC trait the facade is dispatched through
rpc_trait(h) ==
    CASE h.type = "OwnerAPIHandlerV2" -> "OwnerRpc"
      [] h.type = "OwnerAPIHandlerV3" -> "OwnerRpcS"
      [] OTHER -> "ForeignRpc"

\* MaybeReply
Reply(r) == [reply |-> TRUE, value |-> r]
DontReply == [reply |-> FALSE, value |-> [type |-> "null", items |-> <<>>]]

\* call_api that answers a notification with an empty object
call_api_object(maybe) ==
    IF maybe.reply THEN maybe.value ELSE JsonObject(<<>>)

\* call_api, the match on MaybeReply: the value the handler answers with
call_api(maybe) ==
    IF maybe.reply THEN maybe.value ELSE JsonArray(<<>>)

\* post without its or_else: a failed future is handed on as it is and no response
\* is written
post_drop_error(res) ==
    IF res.ok
    THEN Some(json_response_pretty(res.value))
    ELSE NoResponse

\* post: handle_post_request(..).and_then(ok).or_else(create_error_response)
post(res) ==
    IF res.ok
    THEN Some(json_response_pretty(res.value))
    ELSE Some(create_error_response(res.err))

\* options: the CORS preflight answer
options == Some(create_ok_response(<<"{", "}">>))

(***************************************************************************)
(* Router, auth middleware and server of the api crate, as this layer      *)
(* uses them.                                                               *)
(***************************************************************************)
\* Router::new
Router_new == [routes |-> {}, middlewares |-> <<>>]

\* Router::add_middleware: appended to the chain of every route
add_middleware(router, mw) ==
    [router EXCEPT !.middlewares = Append(@, mw)]

\* Router::add_route: fails when the path is already registered; refused holds the
\* paths for which the router returns an error to this caller besides
add_route(router, path, handler, refused) ==
    IF (\E rt \in router.routes : rt.path = path) \/ path \in refused
    THEN [ok |-> FALSE, router |-> router]
    ELSE [ok |-> TRUE,
          router |-> [router EXCEPT
                        !.routes = @ \cup {[path |-> path, handler |-> handler]}]]

\* BasicAuthMiddleware::new
BasicAuthMiddleware_new(api_basic_auth, basic_realm) ==
    [api_basic_auth |-> api_basic_auth, basic_realm |-> basic_realm]

\* the middleware lets a preflight through and compares the header otherwise
auth_passes(mw, method, authorization) ==
    \/ method = "OPTIONS"
    \/ authorization = Some(mw.api_basic_auth)

\* the Authorization header reaches the chain only when the chain has a middleware
auth_seen(middlewares, authorization) ==
    IF Len(middlewares) > 0 THEN authorization ELSE None

\* the answer of the middleware to a request it does not let through
unauthorized_response(basic_realm) ==
    Response(401, Some("*"), Some("Content-Type, Authorization"), None,
             Some(basic_realm), <<>>)

\* the answer of the router to a path it has no route for
not_found == Response(404, Some("*"), Some("Content-Type, Authorization"), None, None, <<>>)

(***************************************************************************)
(* The listeners.                                                           *)
(***************************************************************************)
GRIN_OWNER_BASIC_REALM == "Basic realm=GrinOwnerAPI"

\* to_base64: the encoded text, kept apart from the text it encodes
to_base64(text) == <<"base64(">> \o text \o <<")">>

\* the expected credential put together without encoding it
api_basic_auth_plain(api_secret) ==
    <<"Basic ", "grin:", api_secret>>

\* owner_listener: "Basic " + to_base64("grin:" + api_secret)
api_basic_auth(api_secret) ==
    <<"Basic ">> \o to_base64(<<"grin:", api_secret>>)

\* the Owner router without its auth middleware, whatever the secret
owner_router_no_auth(api_secret) ==
    Router_new

\* owner_listener: the router, with the auth middleware when a secret is configured
owner_router(api_secret) ==
    IF is_some(api_secret)
    THEN add_middleware(Router_new,
                        BasicAuthMiddleware_new(api_basic_auth(unwrap(api_secret)),
                                                GRIN_OWNER_BASIC_REALM))
    ELSE Router_new

\* Option::unwrap_or
unwrap_or(o, d) == IF is_some(o) THEN unwrap(o) ELSE d

\* the listener: its router once it serves, the error it returned once it has failed
Started(kind, router) ==
    [state |-> "running", kind |-> kind, router |-> router, error |-> Ok]
Failed(kind, msg) ==
    [state |-> "failed", kind |-> kind, router |-> Router_new,
     error |-> Err("Generic error", <<msg>>)]
Stopped == [state |-> "stopped", kind |-> "none", router |-> Router_new, error |-> Ok]

\* ApiServer::start: the socket is bound, or startup fails
start(kind, router, bind_ok) ==
    IF bind_ok THEN Started(kind, router) ELSE Failed(kind, "API thread failed to start")

\* owner_listener whose v3 handler is built on a wallet of its own
owner_listener_own_wallet(wallet_inst, keychain_mask, api_secret, owner_api_include_foreign, refused, bind_ok) ==
    LET router == owner_router(api_secret)
        api_handler_v2 == OwnerAPIHandlerV2_new(clone(wallet_inst))
        api_handler_v3 == OwnerAPIHandlerV3_new("copy")
        r2 == add_route(router, "/v2/owner", api_handler_v2, refused)
        r3 == add_route(r2.router, "/v3/owner", api_handler_v3, refused)
        rf == IF unwrap_or(owner_api_include_foreign, FALSE)
              THEN add_route(r3.router, "/v2/foreign",
                             ForeignAPIHandlerV2_new(wallet_inst, keychain_mask), refused)
              ELSE r3
    IN  IF r2.ok /\ r3.ok /\ rf.ok
        THEN start("owner", rf.router, bind_ok)
        ELSE Failed("owner", "Router failed to add route")

\* owner_listener that mounts the Foreign route whenever the option is given at all
owner_listener_foreign_if_some(wallet_inst, keychain_mask, api_secret, owner_api_include_foreign, refused, bind_ok) ==
    LET router == owner_router(api_secret)
        api_handler_v2 == OwnerAPIHandlerV2_new(clone(wallet_inst))
        api_handler_v3 == OwnerAPIHandlerV3_new(clone(wallet_inst))
        r2 == add_route(router, "/v2/owner", api_handler_v2, refused)
        r3 == add_route(r2.router, "/v3/owner", api_handler_v3, refused)
        rf == IF is_some(owner_api_include_foreign)
              THEN add_route(r3.router, "/v2/foreign",
                             ForeignAPIHandlerV2_new(wallet_inst, keychain_mask), refused)
              ELSE r3
    IN  IF r2.ok /\ r3.ok /\ rf.ok
        THEN start("owner", rf.router, bind_ok)
        ELSE Failed("owner", "Router failed to add route")

\* owner_listener that goes on to start the server whatever add_route returned
owner_listener_unchecked_routes(wallet_inst, keychain_mask, api_secret, owner_api_include_foreign, refused, bind_ok) ==
    LET router == owner_router(api_secret)
        api_handler_v2 == OwnerAPIHandlerV2_new(clone(wallet_inst))
        api_handler_v3 == OwnerAPIHandlerV3_new(clone(wallet_inst))
        r2 == add_route(router, "/v2/owner", api_handler_v2, refused)
        r3 == add_route(r2.router, "/v3/owner", api_handler_v3, refused)
        rf == IF unwrap_or(owner_api_include_foreign, FALSE)
              THEN add_route(r3.router, "/v2/foreign",
                             ForeignAPIHandlerV2_new(wallet_inst, keychain_mask), refused)
              ELSE r3
    IN  start("owner", rf.router, bind_ok)

\* pub fn owner_listener(wallet, keychain_mask, addr, api_secret, tls_config,
\*                       owner_api_include_foreign) -> Result<(), Error>
owner_listener(wallet_inst, keychain_mask, api_secret, owner_api_include_foreign, refused, bind_ok) ==
    LET router == owner_router(api_secret)
        api_handler_v2 == OwnerAPIHandlerV2_new(clone(wallet_inst))
        api_handler_v3 == OwnerAPIHandlerV3_new(clone(wallet_inst))
        r2 == add_route(router, "/v2/owner", api_handler_v2, refused)
        r3 == add_route(r2.router, "/v3/owner", api_handler_v3, refused)
        rf == IF unwrap_or(owner_api_include_foreign, FALSE)
              THEN add_route(r3.router, "/v2/foreign",
                             ForeignAPIHandlerV2_new(wallet_inst, keychain_mask), refused)
              ELSE r3
    IN  IF r2.ok /\ r3.ok /\ rf.ok
        THEN start("owner", rf.router, bind_ok)
        ELSE Failed("owner", "Router failed to add route")

\* foreign_listener that puts the Owner API's auth middleware on its router
foreign_listener_with_auth(wallet_inst, keychain_mask, refused, bind_ok) ==
    LET api_handler_v2 == ForeignAPIHandlerV2_new(wallet_inst, keychain_mask)
        rf == add_route(owner_router(Some("secret")), "/v2/foreign", api_handler_v2, refused)
    IN  IF rf.ok
        THEN start("foreign", rf.router, bind_ok)
        ELSE Failed("foreign", "Router failed to add route")

\* pub fn foreign_listener(wallet, keychain_mask, addr, tls_config) -> Result<(), Error>
foreign_listener(wallet_inst, keychain_mask, refused, bind_ok) ==
    LET api_handler_v2 == ForeignAPIHandlerV2_new(wallet_inst, keychain_mask)
        rf == add_route(Router_new, "/v2/foreign", api_handler_v2, refused)
    IN  IF rf.ok
        THEN start("foreign", rf.router, bind_ok)
        ELSE Failed("foreign", "Router failed to add route")

(***************************************************************************)
(* JSON-RPC dispatch and the facades' methods (the api and libwallet       *)
(* crates), as far as this layer depends on them.                          *)
(***************************************************************************)
\* the methods each JSON-RPC trait exposes
rpc_methods(trait) ==
    CASE trait = "OwnerRpc" -> {"init_send_tx"}
      [] trait = "OwnerRpcS" -> {"init_send_tx"}
      [] trait = "ForeignRpc" -> {"build_coinbase", "receive_tx"}
      [] OTHER -> {}

\* the operation a Foreign method names when it consults the check
check_name(method) ==
    CASE method = "build_coinbase" -> "BuildCoinbase"
      [] method = "receive_tx" -> "ReceiveTx"
      [] OTHER -> "CheckVersion"

\* a facade method, once it holds the wallet lock: the installed check first,
\* the wallet operation only when the check lets it through
facade_check(api, value, node_version_info) ==
    IF is_some(api.middleware)
    THEN check_middleware(check_name(value.method), node_version_info, value.slate)
    ELSE Ok

\* the JSON-RPC answer to a request: nothing for a notification
rpc_output(value, result) ==
    IF value.rpc = "notification"
    THEN DontReply
    ELSE Reply(JsonObject(<<"jsonrpc", "2.0", "id", "1",
                            IF result.ok THEN "result" ELSE "error", result.kind>>))

MethodNotFound == Err("Method not found", <<>>)

\* call_api whose closure fails the future when the method has failed
dispatched_try(value, result) ==
    IF result.ok
    THEN [ok |-> TRUE, err |-> Ok, value |-> call_api(rpc_output(value, result))]
    ELSE [ok |-> FALSE, err |-> result, value |-> JsonArray(<<>>)]

\* call_api, the closure after parse_body: whatever handle_request returns, the
\* future succeeds with a value
dispatched(value, result) ==
    [ok |-> TRUE, err |-> Ok, value |-> call_api(rpc_output(value, result))]

(***************************************************************************)
(* Requests.                                                                *)
(***************************************************************************)
Reqs == 1..MaxReqs
Methods == {"POST", "OPTIONS"}
Paths == {"/v2/owner", "/v3/owner", "/v2/foreign", "/v1/wallet"}

\* Authorization headers a client sends: none, the expected one, and the credential
\* not encoded
AuthHeaders ==
    {None,
     Some(<<"Basic ", "base64(", "grin:", "secret", ")">>),
     Some(<<"Basic ", "grin:", "secret">>)}

\* what the router answers to the registrations: it takes them all, or returns an
\* error for one path
Refusals == {{}} \cup {{p} : p \in {"/v2/owner", "/v3/owner", "/v2/foreign"}}

\* what the node client's get_version_info() returns: nothing, or a later epoch
NodeStates ==
    {None, Some([block_header_version |-> GRIN_BLOCK_HEADER_VERSION])}

ListenerArgs(keychain_mask, api_secret, owner_api_include_foreign) ==
    [keychain_mask |-> keychain_mask, api_secret |-> api_secret,
     owner_api_include_foreign |-> owner_api_include_foreign]

NoArgs == ListenerArgs(None, None, None)

IdleReq ==
    [pc |-> "idle", method |-> "none", path |-> "none", authorization |-> None,
     api |-> NoApi, rpc |-> "none", body |-> NoBody, seen |-> 0,
     node_version_info |-> None, applied |-> FALSE, resp |-> NoResponse]

Init ==
    /\ args = NoArgs
    /\ server = Stopped
    /\ mutex = [h \in Handles |-> 0]
    /\ wallet = [h \in Handles |-> 0]
    /\ reqs = [r \in Reqs |-> IdleReq]
    /\ cli = NoCall
    /\ gate = GateIdle

\* the process runs one command: a single-use call or a listener
\* the command calls owner_single_use
OwnerSingleUse(keychain_mask, f_result) ==
    /\ server.state = "stopped"
    /\ cli = NoCall
    /\ cli' = owner_single_use(TheWallet, keychain_mask, f_result)
    /\ args' = ListenerArgs(keychain_mask, None, None)
    /\ UNCHANGED <<server, mutex, wallet, reqs, gate>>

\* the command calls foreign_single_use
ForeignSingleUse(keychain_mask, f_result) ==
    /\ server.state = "stopped"
    /\ cli = NoCall
    /\ cli' = foreign_single_use(TheWallet, keychain_mask, f_result)
    /\ args' = ListenerArgs(keychain_mask, None, None)
    /\ UNCHANGED <<server, mutex, wallet, reqs, gate>>

\* the process calls owner_listener
OwnerListener(keychain_mask, api_secret, owner_api_include_foreign, refused, bind_ok) ==
    /\ server.state = "stopped"
    /\ cli = NoCall
    /\ server' = owner_listener(TheWallet, keychain_mask, api_secret,
                                owner_api_include_foreign, refused, bind_ok)
    /\ args' = ListenerArgs(keychain_mask, api_secret, owner_api_include_foreign)
    /\ UNCHANGED <<mutex, wallet, reqs, cli, gate>>

\* the process calls foreign_listener
ForeignListener(keychain_mask, refused, bind_ok) ==
    /\ server.state = "stopped"
    /\ cli = NoCall
    /\ server' = foreign_listener(TheWallet, keychain_mask, refused, bind_ok)
    /\ args' = ListenerArgs(keychain_mask, None, None)
    /\ UNCHANGED <<mutex, wallet, reqs, cli, gate>>

\* the route registered for a path, if any
routes_for(path) == {rt \in server.router.routes : rt.path = path}

\* Router::call: the head of a request has arrived; route, middleware chain, handler
Request(r, method, path, authorization) ==
    /\ server.state = "running"
    /\ reqs[r].pc = "idle"
    /\ LET mws == server.router.middlewares
           seen_hdr == auth_seen(mws, authorization)
           base == [reqs[r] EXCEPT !.method = method, !.path = path]
       IN  IF routes_for(path) = {}
           THEN reqs' = [reqs EXCEPT ![r] =
                           [base EXCEPT !.pc = "done", !.resp = Some(not_found)]]
           ELSE LET h == (CHOOSE rt \in routes_for(path) : TRUE).handler
                    blocked == {i \in 1..Len(mws) : ~auth_passes(mws[i], method, authorization)}
                    seen == [base EXCEPT !.authorization = seen_hdr]
                IN  IF blocked # {}
                    THEN reqs' = [reqs EXCEPT ![r] =
                           [seen EXCEPT
                              !.pc = "done",
                              !.resp = Some(unauthorized_response(
                                         mws[CHOOSE i \in blocked :
                                               \A j \in blocked : i <= j].basic_realm))]]
                    ELSE IF method = "OPTIONS"
                         THEN reqs' = [reqs EXCEPT ![r] =
                                [seen EXCEPT !.pc = "done", !.resp = options]]
                         ELSE reqs' = [reqs EXCEPT ![r] =
                                [seen EXCEPT !.pc = "reading", !.api = new_api(h),
                                             !.rpc = rpc_trait(h)]]
    /\ UNCHANGED <<args, server, mutex, wallet, cli, gate>>

\* parse_body completes: the body is in (or reading failed); the value is parsed and,
\* unless the method needs the wallet, answered
ReadBody(r, body) ==
    /\ reqs[r].pc = "reading"
    /\ LET p == parse_body(body)
           got == [reqs[r] EXCEPT !.body = body]
       IN  IF ~p.ok
           THEN reqs' = [reqs EXCEPT ![r] =
                  [got EXCEPT !.pc = "done",
                              !.resp = post([ok |-> FALSE, err |-> p.err,
                                             value |-> JsonArray(<<>>)])]]
           ELSE IF p.obj.method \in rpc_methods(reqs[r].rpc)
                THEN reqs' = [reqs EXCEPT ![r] = [got EXCEPT !.pc = "waiting"]]
                ELSE reqs' = [reqs EXCEPT ![r] =
                       [got EXCEPT
                          !.pc = "done",
                          !.resp = post(dispatched(p.obj, MethodNotFound))]]
    /\ UNCHANGED <<args, server, mutex, wallet, cli, gate>>

\* the facade method takes the lock of its wallet and reads the wallet
Lock(r) ==
    /\ reqs[r].pc = "waiting"
    /\ LET h == reqs[r].api.wallet_inst
       IN  /\ mutex[h] = 0
           /\ mutex' = [mutex EXCEPT ![h] = r]
           /\ reqs' = [reqs EXCEPT ![r] = [@ EXCEPT !.pc = "locked", !.seen = wallet[h]]]
    /\ UNCHANGED <<args, server, wallet, cli, gate>>

\* the facade method runs under the lock (a Foreign method asks the node client for
\* its version info), releases the lock, and the handler answers
Call(r, node_version_info) ==
    /\ reqs[r].pc = "locked"
    /\ LET h == reqs[r].api.wallet_inst
           value == parse_body(reqs[r].body).obj
           node == IF reqs[r].api.api = "Foreign" THEN node_version_info ELSE None
           result == facade_check(reqs[r].api, value, node)
       IN  /\ wallet' = IF result.ok
                        THEN [wallet EXCEPT ![h] = reqs[r].seen + 1]
                        ELSE wallet
           /\ mutex' = [mutex EXCEPT ![h] = 0]
           /\ reqs' = [reqs EXCEPT ![r] =
                  [@ EXCEPT !.pc = "done", !.applied = result.ok,
                            !.node_version_info = node,
                            !.resp = post(dispatched(value, result))]]
    /\ UNCHANGED <<args, server, cli, gate>>

Next ==
    \/ \E m \in KeychainMasks, f \in ClosureResults : OwnerSingleUse(m, f)
    \/ \E m \in KeychainMasks, f \in ClosureResults : ForeignSingleUse(m, f)
    \/ \E a \in OwnerArgs, f \in Refusals, b \in BOOLEAN :
          OwnerListener(a.keychain_mask, a.api_secret, a.owner_api_include_foreign, f, b)
    \/ \E m \in KeychainMasks, f \in Refusals, b \in BOOLEAN : ForeignListener(m, f, b)
    \/ \E r \in Reqs, m \in Methods, p \in Paths, a \in AuthHeaders : Request(r, m, p, a)
    \/ \E r \in Reqs, b \in Bodies : ReadBody(r, b)
    \/ \E r \in Reqs : Lock(r)
    \/ \E r \in Reqs, n \in NodeStates : Call(r, n)

Spec == Init /\ [][Next]_vars

\* a step of a request that is with its handler
HandlerStep ==
    \E r \in Reqs :
        \/ \E b \in Bodies : ReadBody(r, b)
        \/ Lock(r)
        \/ \E n \in NodeStates : Call(r, n)

\* Scheduling: the runtime does not stop while a handler can take a step: a body
\* read completes (the connection delivers the body or breaks), a facade method
\* waiting for the free lock gets it, a wallet call holding the lock returns.
Fairness == WF_vars(HandlerStep)

FairSpec == Spec /\ Fairness

(***************************************************************************)
(* Handler failure: a wallet call that panics.  The runtime drops the task *)
(* of that connection and goes on serving; the stack unwinds and with it   *)
(* the guard of the wallet lock.                                           *)
(***************************************************************************)
\* unwinding that leaves the wallet locked by the task that is gone
unwind_keep_lock(mtx, r) == mtx

\* unwinding drops the guard: a lock held by the task is free again
unwind(mtx, r) == [h \in Handles |-> IF mtx[h] = r THEN 0 ELSE mtx[h]]

\* the facade method panics under the lock: the task is dropped with its request,
\* its facade and its buffers, no response is written, the connection is closed, the
\* wallet is left as the call found it
Panic(r) ==
    /\ reqs[r].pc = "locked"
    /\ reqs' = [reqs EXCEPT ![r] = [IdleReq EXCEPT !.pc = "failed"]]
    /\ mutex' = unwind(mutex, r)
    /\ UNCHANGED <<args, server, wallet, cli, gate>>

PanicNext ==
    \/ Next
    \/ \E r \in Reqs : Panic(r)

PanicSpec == Init /\ [][PanicNext]_vars

(***************************************************************************)
(* The check on its own: every input of the bounded sets, applied once.    *)
(***************************************************************************)
GateInit ==
    /\ args = NoArgs
    /\ server = Stopped
    /\ mutex = [h \in Handles |-> 0]
    /\ wallet = [h \in Handles |-> 0]
    /\ reqs = [r \in Reqs |-> IdleReq]
    /\ cli = NoCall
    /\ gate \in GateInputs

GateNext == ApplyCheck

GateSpec == GateInit /\ [][GateNext]_vars

(***************************************************************************)
(* Properties of the compatibility check (under GateSpec).                 *)
(***************************************************************************)
GateDone == gate.result # None
GateResult == gate.result[1]
GateGated == gate.name # "BuildCoinbase"
GateHasSlate == gate.slate # None
GateSlateVersion == gate.slate[1].version_info.version
GateSlateHeader == gate.slate[1].version_info.block_header_version

\* the epoch floor: the node's block header version, 1 when the node reports nothing
EpochFloor ==
    IF gate.node_version_info = None
    THEN 1
    ELSE gate.node_version_info[1].block_header_version

\* one of the three rejection conditions holds of the slate
SlateFailsCheck ==
    \/ GateSlateVersion < CURRENT_SLATE_VERSION
    \/ (EpochFloor = 1 /\ GateSlateHeader # 1)
    \/ (EpochFloor > 1 /\ GateSlateHeader < GRIN_BLOCK_HEADER_VERSION)

\* C1: check_middleware returns a Compatibility error exactly when the operation is
\* not BuildCoinbase, a slate is present and one of the three rejection conditions
\* holds (slate version below CURRENT_SLATE_VERSION; epoch floor 1 and slate header
\* version not 1; epoch floor above 1 and slate header version below
\* GRIN_BLOCK_HEADER_VERSION); in every other case, a missing slate included, it
\* returns Ok.
C1_GateVerdict ==
    GateDone =>
        IF GateGated /\ GateHasSlate /\ SlateFailsCheck
        THEN ~GateResult.ok /\ GateResult.kind = "Compatibility"
        ELSE GateResult = Ok

\* a gated operation on a slate rejected for its header version alone, under a node
\* of a later epoch
C1_Witness ==
    /\ GateDone /\ GateGated /\ GateHasSlate
    /\ EpochFloor > 1
    /\ GateSlateVersion >= CURRENT_SLATE_VERSION
    /\ GateSlateHeader < GRIN_BLOCK_HEADER_VERSION
    /\ GateResult.kind = "Compatibility"

\* C2: BuildCoinbase is accepted for every node version info, present or absent, and
\* every slate, absent or present with any version and header version.
C2_CoinbaseExempt ==
    (GateDone /\ gate.name = "BuildCoinbase") => GateResult = Ok

\* a coinbase accepted although its slate is below every supported version
C2_Witness ==
    /\ GateDone /\ gate.name = "BuildCoinbase"
    /\ GateHasSlate /\ GateSlateVersion = 0 /\ GateSlateHeader = 0
    /\ gate.node_version_info # None
    /\ GateResult = Ok

\* C3: a slate whose version is below CURRENT_SLATE_VERSION is rejected with a
\* Compatibility error whatever the node version info (present or absent) and
\* whatever the slate's header version, for every operation the check applies to
\* (every operation but BuildCoinbase, which C2 exempts).
C3_OldSlateRejected ==
    (GateDone /\ GateGated /\ GateHasSlate /\ GateSlateVersion < CURRENT_SLATE_VERSION)
        => (~GateResult.ok /\ GateResult.kind = "Compatibility")

\* an old slate rejected although its header version suits the node's epoch
C3_Witness ==
    /\ GateDone /\ GateGated /\ GateHasSlate
    /\ GateSlateVersion < CURRENT_SLATE_VERSION
    /\ EpochFloor = 1 /\ GateSlateHeader = 1
    /\ GateResult.kind = "Compatibility"

\* C4: with epoch floor 1 (the node reports header version 1, or reports nothing) the
\* check wants an exact match: a slate of header version other than 1 is rejected,
\* and a slate of header version 1 (of a supported slate version) is accepted.
C4_EpochOneExact ==
    (GateDone /\ GateGated /\ GateHasSlate /\ EpochFloor = 1)
        => /\ GateSlateHeader # 1 => GateResult.kind = "Compatibility"
           /\ (GateSlateHeader = 1 /\ GateSlateVersion >= CURRENT_SLATE_VERSION)
                 => GateResult = Ok

\* a slate of a supported version and header version 2 rejected without node info
C4_Witness ==
    /\ GateDone /\ GateGated /\ GateHasSlate
    /\ gate.node_version_info = None
    /\ GateSlateVersion >= CURRENT_SLATE_VERSION
    /\ GateSlateHeader = 2
    /\ GateResult.kind = "Compatibility"

\* C5: with an epoch floor above 1 a slate whose header version is below
\* GRIN_BLOCK_HEADER_VERSION is rejected, and a slate (of a supported slate version)
\* whose header version is at or above it is accepted, equal to the node's header
\* version or not.
C5_LaterEpochFloor ==
    (GateDone /\ GateGated /\ GateHasSlate /\ EpochFloor > 1)
        => /\ GateSlateHeader < GRIN_BLOCK_HEADER_VERSION
                 => GateResult.kind = "Compatibility"
           /\ (GateSlateHeader >= GRIN_BLOCK_HEADER_VERSION
               /\ GateSlateVersion >= CURRENT_SLATE_VERSION)
                 => GateResult = Ok

\* a slate accepted under epoch floor 3 with a header version below the node's
C5_Witness ==
    /\ GateDone /\ GateGated /\ GateHasSlate
    /\ EpochFloor = 3
    /\ GateSlateVersion >= CURRENT_SLATE_VERSION
    /\ GateSlateHeader >= GRIN_BLOCK_HEADER_VERSION
    /\ GateSlateHeader < EpochFloor
    /\ GateResult = Ok

(***************************************************************************)
(* Properties of the listeners and handlers (under Spec).                  *)
(***************************************************************************)
\* the paths the running listener was asked to serve
RegisteredPaths ==
    IF server.state # "running"
    THEN {}
    ELSE IF server.kind = "owner"
         THEN {"/v2/owner", "/v3/owner"}
              \cup (IF args.owner_api_include_foreign = Some(TRUE)
                    THEN {"/v2/foreign"} ELSE {})
         ELSE {"/v2/foreign"}

Arrived == {r \in Reqs : reqs[r].pc # "idle"}
Answered == {r \in Reqs : reqs[r].pc = "done"}
InCritical == {r \in Reqs : reqs[r].pc = "locked"}
Status(r) == reqs[r].resp[1].status
Contains(seq, x) == \E i \in DOMAIN seq : seq[i] = x

\* C6: at most one request of the listener, whatever its route, is inside a wallet
\* call at any moment; the lock is held by that request alone, the wallet it read on
\* entry is the wallet it still sees, and the wallet holds exactly one record per
\* completed call, as after some sequential order of the calls.
C6_WalletCallsSerialized ==
    /\ Cardinality(InCritical) <= 1
    /\ \A r \in InCritical :
          /\ mutex[TheWallet] = r
          /\ reqs[r].seen = wallet[TheWallet]
    /\ wallet[TheWallet] = Cardinality({r \in Reqs : reqs[r].applied})

\* one request inside its wallet call while a request of another route waits for the
\* lock
C6_Witness ==
    \E r1, r2 \in Reqs :
        /\ reqs[r1].pc = "locked"
        /\ reqs[r2].pc = "waiting"
        /\ reqs[r1].path # reqs[r2].path

\* the check, stated on the slate a Foreign request carries and on what the node
\* reported to the call
SlateFails(v, node) ==
    LET floor == IF node = None THEN 1 ELSE node[1].block_header_version
    IN  /\ v.method # "build_coinbase"
        /\ v.slate # None
        /\ \/ v.slate[1].version_info.version < CURRENT_SLATE_VERSION
           \/ (floor = 1 /\ v.slate[1].version_info.block_header_version # 1)
           \/ (floor > 1 /\ v.slate[1].version_info.block_header_version
                              < GRIN_BLOCK_HEADER_VERSION)

\* C7: a Foreign call whose slate the check rejects leaves the wallet as it was: the
\* check comes before any change.  Hence a Foreign call that changes the wallet is a
\* coinbase construction or carries a slate the check accepts.
C7_GateBeforeMutation ==
    [][\A r \in Reqs :
          (/\ reqs[r].pc = "locked"
           /\ reqs'[r].pc = "done"
           /\ reqs[r].api.api = "Foreign"
           /\ SlateFails(reqs[r].body.value, reqs'[r].node_version_info))
             => (wallet' = wallet /\ ~reqs'[r].applied)]_vars

\* a Foreign receive_tx answered after the check rejected its slate, next to a Foreign
\* call that did change the wallet
C7_Witness ==
    \E r1, r2 \in Reqs :
        /\ reqs[r1].pc = "done" /\ reqs[r1].api.api = "Foreign"
        /\ reqs[r1].body.value.method = "receive_tx"
        /\ SlateFails(reqs[r1].body.value, reqs[r1].node_version_info)
        /\ ~reqs[r1].applied
        /\ reqs[r2].pc = "done" /\ reqs[r2].api.api = "Foreign"
        /\ reqs[r2].applied
        /\ wallet[TheWallet] = 1

\* the Authorization value an Owner listener with a secret expects
ExpectedAuthorization ==
    Some(<<"Basic ", "base64(", "grin:", args.api_secret[1], ")">>)

\* C8: on a running Owner listener with an API secret, a request for a handler (a POST
\* to a registered route) whose Authorization header is missing or differs from
\* "Basic " + base64("grin:" + secret) is answered 401 with the realm challenge, and
\* nothing else is answered 401; on an Owner listener without a secret no auth
\* middleware is installed and no request is answered 401.
C8_OwnerAuth ==
    (server.state = "running" /\ server.kind = "owner") =>
        IF args.api_secret # None
        THEN \A r \in Arrived :
                IF /\ reqs[r].method = "POST"
                   /\ reqs[r].path \in RegisteredPaths
                   /\ reqs[r].authorization # ExpectedAuthorization
                THEN /\ reqs[r].pc = "done"
                     /\ Status(r) = 401
                     /\ reqs[r].resp[1].www_authenticate = Some("Basic realm=GrinOwnerAPI")
                ELSE reqs[r].pc = "done" => Status(r) # 401
        ELSE /\ server.router.middlewares = <<>>
             /\ \A r \in Answered : Status(r) # 401

\* with a secret, one POST without the header answered 401; the other, carrying the
\* expected header, past the middleware
C8_Witness ==
    /\ server.kind = "owner" /\ args.api_secret # None
    /\ \E r1, r2 \in Reqs :
          /\ reqs[r1].method = "POST" /\ reqs[r1].authorization = None
          /\ reqs[r1].pc = "done" /\ Status(r1) = 401
          /\ reqs[r2].method = "POST" /\ reqs[r2].authorization = ExpectedAuthorization
          /\ reqs[r2].pc = "reading"

\* C9: an OPTIONS request on a registered route is answered at once with status 200,
\* body {} and both CORS headers, whatever the auth configuration and whatever
\* credentials it carries, and it never gets a facade, a body read or the wallet.
C9_OptionsPreflight ==
    \A r \in Arrived :
        (reqs[r].method = "OPTIONS" /\ reqs[r].path \in RegisteredPaths) =>
            /\ reqs[r].pc = "done"
            /\ Status(r) = 200
            /\ reqs[r].resp[1].body = <<"{", "}">>
            /\ reqs[r].resp[1].access_control_allow_origin = Some("*")
            /\ reqs[r].resp[1].access_control_allow_headers
                 = Some("Content-Type, Authorization")
            /\ reqs[r].api = NoApi
            /\ reqs[r].body = NoBody
            /\ ~reqs[r].applied
            /\ \A h \in Handles : mutex[h] # r

\* a preflight without credentials answered 200 by a listener that has a secret
C9_Witness ==
    /\ server.kind = "owner" /\ args.api_secret # None
    /\ \E r \in Reqs :
          /\ reqs[r].method = "OPTIONS" /\ reqs[r].path = "/v3/owner"
          /\ reqs[r].authorization = None
          /\ reqs[r].pc = "done" /\ Status(r) = 200

\* C10: a POST that reached a handler and whose body could not be read, or is not
\* JSON, is answered 500 with a plain-text body naming the failure ("Failed to read
\* request", "Invalid request body: ..."); nothing is dispatched for it and it never
\* takes or changes the wallet.
C10_BadBody ==
    \A r \in Arrived :
        (reqs[r].body # NoBody /\ ~(reqs[r].body.read_ok /\ reqs[r].body.json_ok)) =>
            /\ reqs[r].pc = "done"
            /\ Status(r) = 500
            /\ reqs[r].resp[1].content_type = None
            /\ Contains(reqs[r].resp[1].body,
                        IF reqs[r].body.read_ok
                        THEN "Invalid request body: "
                        ELSE "Failed to read request")
            /\ ~reqs[r].applied
            /\ \A h \in Handles : mutex[h] # r

\* malformed JSON answered 500 on one route and an unreadable body on another
C10_Witness ==
    \E r1, r2 \in Reqs :
        /\ reqs[r1].path = "/v2/foreign" /\ reqs[r1].body = Body(TRUE, FALSE, NoValue)
        /\ reqs[r1].pc = "done" /\ Status(r1) = 500
        /\ reqs[r2].path = "/v3/owner" /\ reqs[r2].body = Body(FALSE, FALSE, NoValue)
        /\ reqs[r2].pc = "done" /\ Status(r2) = 500

\* the value a POST carried, once its body was read and parsed
Parsed(r) == reqs[r].body.read_ok /\ reqs[r].body.json_ok
Value(r) == reqs[r].body.value

\* C11: a POST whose dispatch yields no reply (its body holds notifications only) is
\* answered with status 200 and the body [], on Owner v2, Owner v3 and Foreign v2
\* alike, whether the method ran, was refused or does not exist.
C11_NotificationEmptyArray ==
    \A r \in Answered :
        (reqs[r].api # NoApi /\ Parsed(r) /\ Value(r).rpc = "notification") =>
            /\ Status(r) = 200
            /\ reqs[r].resp[1].body = <<"[", "]">>
            /\ reqs[r].resp[1].content_type = Some("application/json")

\* a notification that ran on the Foreign route and one on an Owner route, both
\* answered []
C11_Witness ==
    \E r1, r2 \in Reqs :
        /\ reqs[r1].rpc = "ForeignRpc" /\ Value(r1).rpc = "notification"
        /\ reqs[r1].pc = "done" /\ reqs[r1].applied
        /\ reqs[r1].resp[1].body = <<"[", "]">>
        /\ reqs[r2].rpc \in {"OwnerRpc", "OwnerRpcS"} /\ Value(r2).rpc = "notification"
        /\ reqs[r2].pc = "done" /\ reqs[r2].applied
        /\ reqs[r2].resp[1].body = <<"[", "]">>

\* a request is with a handler: a POST from the moment its facade is built, a
\* preflight on a registered route
InHandler(r) == reqs[r].pc \in {"reading", "waiting", "locked"}
ReachedHandler(r) ==
    \/ reqs[r].api # NoApi
    \/ (reqs[r].method = "OPTIONS" /\ reqs[r].path \in RegisteredPaths)

C13_ResponseHeaders ==
    \A r \in Answered :
        /\ reqs[r].resp[1].access_control_allow_origin = Some("*")
        /\ reqs[r].resp[1].access_control_allow_headers = Some("Content-Type, Authorization")
        /\ (reqs[r].resp[1].content_type = Some("application/json")) <=> (Status(r) = 200)
        /\ reqs[r].resp[1].content_type \in {None, Some("application/json")}

\* a 500 built by one handler next to a JSON-RPC reply (200) built by another
C13_Witness ==
    \E r1, r2 \in Reqs :
        /\ reqs[r1].pc = "done" /\ reqs[r1].api # NoApi /\ Status(r1) = 500
        /\ reqs[r2].pc = "done" /\ reqs[r2].api # NoApi /\ Status(r2) = 200
        /\ Value(r2).rpc = "call"
        /\ reqs[r1].path # reqs[r2].path

\* the listener returned the error of a refused registration
RouteError == server.error = Err("Generic error", <<"Router failed to add route">>)

\* C14: registering a path a router already holds fails, and a failed registration
\* in owner_listener or foreign_listener is fatal to the start: the function returns
\* its error without a server (nothing is bound, no request is ever served); a
\* listener that runs holds every path it was asked to serve, each once, and from
\* the moment it runs or has failed nothing is registered any more.
C14_RouteFailureFatal ==
    /\ [](/\ RouteError => (server.state = "failed" /\ server.router = Router_new)
          /\ Arrived # {} => server.state = "running"
          /\ server.state = "running" =>
                /\ server.error = Ok
                /\ {rt.path : rt \in server.router.routes} = RegisteredPaths
                /\ Cardinality(server.router.routes) = Cardinality(RegisteredPaths)
                /\ \A rt \in server.router.routes :
                      ~add_route(server.router, rt.path, rt.handler, {}).ok)
    /\ [][server.state # "stopped" => server' = server]_vars

\* owner_listener, asked to mount the Foreign route as well, has returned the error
\* of a refused registration: no server, no request
C14_Witness ==
    /\ RouteError
    /\ server.kind = "owner" /\ server.state = "failed"
    /\ args.owner_api_include_foreign = Some(TRUE)
    /\ Arrived = {}

\* connections whose handler failed
Broken == {r \in Reqs : reqs[r].pc = "failed"}

C16_FacadeConstruction ==
    /\ \A r \in Arrived :
          /\ (reqs[r].api # NoApi) <=>
                (reqs[r].method = "POST" /\ (reqs[r].pc = "done" => Status(r) \in {200, 500}))
          /\ reqs[r].api.api = "Foreign" =>
                /\ reqs[r].path = "/v2/foreign"
                /\ reqs[r].api = Foreign_new(TheWallet, args.keychain_mask,
                                             Some("check_middleware"))
          /\ reqs[r].api.api = "Owner" =>
                /\ reqs[r].path \in {"/v2/owner", "/v3/owner"}
                /\ reqs[r].api = Owner_new(TheWallet)
    /\ cli.api.api = "Foreign" =>
          cli.api = Foreign_new(TheWallet, args.keychain_mask, Some("check_middleware"))
    /\ cli.api.api = "Owner" =>
          (cli.api = Owner_new(TheWallet) /\ cli.keychain_mask = args.keychain_mask)

\* on an Owner listener that also serves the Foreign route, with a keychain mask: a
\* Foreign facade with mask and check next to an Owner facade without either
C16_Witness ==
    /\ args.keychain_mask = Some("mask")
    /\ \E r1, r2 \in Reqs :
          /\ InHandler(r1) /\ reqs[r1].api.api = "Foreign"
          /\ reqs[r1].api.keychain_mask = Some("mask")
          /\ reqs[r1].api.middleware = Some("check_middleware")
          /\ InHandler(r2) /\ reqs[r2].api.api = "Owner"
          /\ reqs[r2].api.middleware = None
          /\ reqs[r1].api.wallet_inst = reqs[r2].api.wallet_inst

\* a request the handlers never had: no facade, no body read, no dispatch, no lock,
\* no wallet call
Untouched(r) ==
    /\ reqs[r].api = NoApi
    /\ reqs[r].rpc = "none"
    /\ reqs[r].body = NoBody
    /\ reqs[r].seen = 0
    /\ ~reqs[r].applied
    /\ \A h \in Handles : mutex[h] # r

\* C17: the auth middleware runs before the handler and cuts the request short.  On
\* an Owner listener with a secret, a POST to a registered route whose Authorization
\* header is not the expected one is answered 401 at once, and a request answered
\* 401 never had a facade, a body read, a dispatch or the wallet lock; the step that
\* answers 401 leaves lock and wallet as they were.
C17_AuthShortCircuit ==
    /\ [](\A r \in Arrived :
            /\ (/\ server.kind = "owner" /\ args.api_secret # None
                 /\ reqs[r].method = "POST"
                 /\ reqs[r].path \in RegisteredPaths
                 /\ reqs[r].authorization # ExpectedAuthorization)
                   => (reqs[r].pc = "done" /\ Status(r) = 401 /\ Untouched(r))
            /\ (reqs[r].pc = "done" /\ Status(r) = 401)
                   => (Untouched(r) /\ reqs[r].resp[1].body = <<>>))
    /\ [][\A r \in Reqs :
            (reqs'[r].pc = "done" /\ reqs'[r].resp # NoResponse
             /\ reqs'[r].resp[1].status = 401)
               => \/ reqs'[r] = reqs[r]
                  \/ (reqs[r].pc = "idle" /\ mutex' = mutex /\ wallet' = wallet)]_vars

\* a POST with the credential sent unencoded was answered 401 while a POST with the
\* expected header is inside its wallet call
C17_Witness ==
    /\ server.kind = "owner" /\ args.api_secret # None
    /\ \E r1, r2 \in Reqs :
          /\ reqs[r1].method = "POST"
          /\ reqs[r1].authorization = Some(<<"Basic ", "grin:", "secret">>)
          /\ reqs[r1].pc = "done" /\ Status(r1) = 401
          /\ reqs[r2].authorization = ExpectedAuthorization
          /\ reqs[r2].pc = "locked"

\* the routes of the running listener, as path and handler type
RouteTable == {<<rt.path, rt.handler.type>> : rt \in server.router.routes}

\* the method table a route dispatches to
TableOf(path) ==
    CASE path = "/v2/owner" -> "OwnerRpc"
      [] path = "/v3/owner" -> "OwnerRpcS"
      [] path = "/v2/foreign" -> "ForeignRpc"
      [] OTHER -> "none"

\* C18: a Foreign listener serves the one path /v2/foreign, so none of its requests
\* reaches an Owner method table; an Owner listener serves /v2/owner and /v3/owner
\* always and /v2/foreign exactly when owner_api_include_foreign is Some(true),
\* None and Some(false) alike leaving it out; a POST in a handler is dispatched
\* through the table of its own route; and a request for a path that is not
\* registered is answered 404, nothing being built or dispatched for it.
C18_RouteSeparation ==
    server.state = "running" =>
        /\ server.kind = "foreign" =>
              /\ RouteTable = {<<"/v2/foreign", "ForeignAPIHandlerV2">>}
              /\ \A r \in Arrived :
                    reqs[r].rpc \in {"none", "ForeignRpc"} /\ reqs[r].api.api # "Owner"
        /\ server.kind = "owner" =>
              RouteTable =
                 {<<"/v2/owner", "OwnerAPIHandlerV2">>, <<"/v3/owner", "OwnerAPIHandlerV3">>}
                 \cup (IF args.owner_api_include_foreign = Some(TRUE)
                       THEN {<<"/v2/foreign", "ForeignAPIHandlerV2">>}
                       ELSE {})
        /\ \A r \in Arrived :
              /\ reqs[r].api # NoApi => reqs[r].rpc = TableOf(reqs[r].path)
              /\ IF reqs[r].path \in {rt[1] : rt \in RouteTable}
                 THEN reqs[r].pc = "done" => Status(r) # 404
                 ELSE reqs[r].pc = "done" /\ Status(r) = 404 /\ Untouched(r)

\* an Owner listener started with Some(false): a POST to /v2/foreign was answered 404
\* while a POST to /v3/owner is with its handler
C18_Witness ==
    /\ server.kind = "owner" /\ args.owner_api_include_foreign = Some(FALSE)
    /\ \E r1, r2 \in Reqs :
          /\ reqs[r1].method = "POST" /\ reqs[r1].path = "/v2/foreign"
          /\ reqs[r1].pc = "done" /\ Status(r1) = 404
          /\ reqs[r2].path = "/v3/owner" /\ reqs[r2].rpc = "OwnerRpcS"
          /\ InHandler(r2)

\* C19: a POST that reached a handler is answered 500 exactly when its body could not
\* be read or is not JSON; every POST whose body parses is answered 200, also when
\* the method it names does not exist or fails: a slate refused by the compatibility
\* check comes back as the error member of the 200 reply, the wallet untouched, and
\* never as a 500.
C19_ErrorsInReply ==
    \A r \in Answered :
        reqs[r].api # NoApi =>
            /\ Status(r) \in {200, 500}
            /\ (Status(r) = 500) <=> ~Parsed(r)
            /\ (/\ Parsed(r) /\ reqs[r].api.api = "Foreign"
                 /\ SlateFails(Value(r), reqs[r].node_version_info))
                   => /\ Status(r) = 200
                      /\ Contains(reqs[r].resp[1].body, "error")
                      /\ Contains(reqs[r].resp[1].body, "Compatibility")
                      /\ ~reqs[r].applied

\* a receive_tx whose slate the check refused, answered 200 with the error in the
\* reply, next to a body that is not JSON, answered 500
C19_Witness ==
    \E r1, r2 \in Reqs :
        /\ reqs[r1].pc = "done" /\ reqs[r1].api.api = "Foreign"
        /\ Value(r1).method = "receive_tx"
        /\ SlateFails(Value(r1), reqs[r1].node_version_info)
        /\ Status(r1) = 200 /\ Contains(reqs[r1].resp[1].body, "Compatibility")
        /\ reqs[r2].pc = "done" /\ reqs[r2].body = Body(TRUE, FALSE, NoValue)
        /\ Status(r2) = 500

\* C20: authentication belongs to the listener, not to the route.  On an Owner
\* listener with a secret that also serves /v2/foreign, a POST to /v2/foreign is held
\* to the same credential as a POST to /v2/owner or /v3/owner: without the expected
\* Authorization header it is answered 401 with the Owner realm and reaches no
\* handler, with it it is not answered 401.  A listener started by
\* foreign_listener has no middleware and never answers 401, whatever header comes.
C20_AuthPerListener ==
    server.state = "running" =>
        /\ (/\ server.kind = "owner" /\ args.api_secret # None
             /\ args.owner_api_include_foreign = Some(TRUE)) =>
              /\ Len(server.router.middlewares) = 1
              /\ \A r \in Arrived :
                    (reqs[r].method = "POST"
                     /\ reqs[r].path \in {"/v2/owner", "/v3/owner", "/v2/foreign"}) =>
                        IF reqs[r].authorization = ExpectedAuthorization
                        THEN reqs[r].api # NoApi
                             /\ (reqs[r].pc = "done" => Status(r) # 401)
                        ELSE /\ reqs[r].pc = "done" /\ Status(r) = 401
                             /\ reqs[r].resp[1].www_authenticate
                                  = Some(GRIN_OWNER_BASIC_REALM)
                             /\ Untouched(r)
        /\ server.kind = "foreign" =>
              /\ server.router.middlewares = <<>>
              /\ \A r \in Arrived :
                    /\ reqs[r].pc = "done" => Status(r) # 401
                    /\ (reqs[r].method = "POST" /\ reqs[r].path = "/v2/foreign")
                          => reqs[r].api.api = "Foreign"

\* on an Owner listener with a secret and the Foreign route: a POST to /v2/foreign
\* without header was answered 401, one with the expected header is in the Foreign
\* handler
C20_Witness ==
    /\ server.kind = "owner" /\ args.api_secret # None
    /\ args.owner_api_include_foreign = Some(TRUE)
    /\ \E r1, r2 \in Reqs :
          /\ reqs[r1].method = "POST" /\ reqs[r1].path = "/v2/foreign"
          /\ reqs[r1].authorization = None
          /\ reqs[r1].pc = "done" /\ Status(r1) = 401
          /\ reqs[r2].method = "POST" /\ reqs[r2].path = "/v2/foreign"
          /\ reqs[r2].authorization = ExpectedAuthorization
          /\ InHandler(r2) /\ reqs[r2].api.api = "Foreign"

====
